---- MODULE Spec2Model ----
(***************************************************************************)
(* Run-lifecycle client of the supply-chain dashboard (src/app/page.tsx).  *)
(* The file holds two versions of the SupplyChainDashboard component:      *)
(*   "pull"  lines 51-321: the stream ends with an "end" event or an error *)
(*           and each terminal handler calls fetchDashboardData();         *)
(*   "push"  lines 379-570: runSystem itself awaits GET /run and applies   *)
(*           the combined payload; only onerror ends the run.              *)
(* One behaviour of the model is one mounted component of one version.     *)
(* Every callback (click handler, EventSource handler, promise             *)
(* continuation) is one atomic action: JavaScript runs it to completion    *)
(* and React commits the state updates it queued in one render.            *)
(***************************************************************************)
EXTENDS Integers, Sequences, FiniteSets, TLC

\* ------------------------------------------------------------------ bounds
MaxRuns == 2
MaxMsgs == 2

\* ------------------------------------------------------------ JSON values
\* A slot of the store holds whatever the handler passed to its setter: an
\* array, or (push version) undefined when the payload lacks the field.
JArray(s) == [kind |-> "array", items |-> s]
JNull == [kind |-> "null", items |-> <<>>]
Undefined == [kind |-> "undefined", items |-> <<>>]

\* x || []
OrEmpty(v) == IF v.kind = "array" THEN v ELSE JArray(<<>>)

Item(id, stock, threshold) == [item_id |-> id, stock_level |-> stock, reorder_threshold |-> threshold]

\* Bodies the backend may answer with (GET /inventory, /purchase-orders,
\* /sla-violations): a JSON array or JSON null.
InventoryBodies ==
    { JArray(<<Item("I1", 5, 10), Item("I2", 20, 5)>>),
      JArray(<<Item("I1", 5, 5), Item("I2", 3, 7), Item("I3", 0, 1)>>) }
PurchaseOrderBodies ==
    { JArray(<<[order_id |-> "PO-1001", status |-> "pending"]>>) }
SlaBodies ==
    { JNull,
      JArray(<<[order_id |-> "PO-1001", reason |-> "late"],
               [order_id |-> "PO-1001", reason |-> "damaged"]>>) }
RestockBodies == { JArray(<<[order_id |-> "PO-1001", delivery_method |-> "air"]>>) }
MetricBodies == { JArray(<<[name |-> "lead_time", value |-> 3]>>) }

Resources == {"inventory", "purchase-orders", "sla-violations"}

\* Combined payloads of GET /run: every field present, or one of the two
\* fields the push version never renders missing, or JSON null.
PayloadFields == {"inventory_data", "purchase_orders", "restock_plan", "sla_violations", "metrics"}
FullPayloads ==
    [ isNull : {FALSE},
      inventory_data : InventoryBodies,
      purchase_orders : PurchaseOrderBodies,
      restock_plan : RestockBodies,
      sla_violations : SlaBodies \ {JNull},
      metrics : MetricBodies ]
Without(p, f) == [p EXCEPT ![f] = Undefined]
NullPayload ==
    [ isNull |-> TRUE, inventory_data |-> Undefined, purchase_orders |-> Undefined,
      restock_plan |-> Undefined, sla_violations |-> Undefined, metrics |-> Undefined ]
RunPayloads ==
    FullPayloads
      \cup { Without(p, "metrics") : p \in FullPayloads }
      \cup { Without(p, "restock_plan") : p \in FullPayloads }
      \cup { NullPayload }
MissingFields(p) == { f \in PayloadFields : p[f] = Undefined }

\* -------------------------------------------------------- stream payloads
\* event.data is a string; here a sequence of one-character strings.
Whitespace == {" ", "\n"}
Payloads ==
    { <<" ", "a", "\n">>, <<"b", " ", "c", " ">> }

RECURSIVE TrimStart(_)
TrimStart(s) ==
    IF s # <<>> /\ Head(s) \in Whitespace THEN TrimStart(Tail(s)) ELSE s

RECURSIVE TrimEnd(_)
TrimEnd(s) ==
    IF s # <<>> /\ s[Len(s)] \in Whitespace THEN TrimEnd(SubSeq(s, 1, Len(s) - 1)) ELSE s

\* String.prototype.trim
Trim(s) == TrimEnd(TrimStart(s))

\* ------------------------------------------------------------------ state
VARIABLES
    variant,         \* "pull" or "push": which version is mounted
    inventory,       \* useState slots of the store
    purchaseOrders,
    slaViolations,
    restockPlan,     \* push version only
    metrics,         \* push version only
    activityLogs,    \* the LogBuffer
    isRunning,
    eventSources,    \* every EventSource runSystem created, in order
    calls,           \* every fetchDashboardData() execution, in order
    runCalls,        \* every GET /run of the push version, in order
    consoleErrors,   \* number of console.error lines written
    view,            \* the derived numbers of the last committed render
    origin,          \* history: which call wrote each slot (0: initial [])
    delivered,       \* history: payloads handed to onmessage since the last start
    discarded        \* history: the last start found entries of an earlier run

store == <<inventory, purchaseOrders, slaViolations, restockPlan, metrics>>
vars ==
    <<variant, inventory, purchaseOrders, slaViolations, restockPlan, metrics,
      activityLogs, isRunning, eventSources, calls, runCalls, consoleErrors,
      view, origin, delivered, discarded>>

\* ------------------------------------------------------------ derived view
totalPurchaseOrders(po) == Len(po.items)
slaViolationsCount(sla) == Len(sla.items)
\* A filter that also counts an item exactly at its threshold.
lowStockItems_orEqual(inv) ==
    SelectSeq(inv.items, LAMBDA item : item.stock_level <= item.reorder_threshold)

lowStockItems(inv) ==
    SelectSeq(inv.items, LAMBDA item : item.stock_level < item.reorder_threshold)

\* The render of the pull version: the four metric cards read these.
Render(inv, po, sla) ==
    [ totalPurchaseOrders |-> totalPurchaseOrders(po),
      slaViolationsCount |-> slaViolationsCount(sla),
      lowStockCount |-> Len(lowStockItems(inv)) ]

\* ------------------------------------------------------- fetchDashboardData
\* One execution: phase "fetch" waits on Promise.all of the three fetches,
\* phase "json" on Promise.all of the three json() calls; got is the number
\* of fetches that have resolved (Promise.all counts its remaining elements;
\* it does not look at which resolved).
NewCall(r) == [run |-> r, phase |-> "fetch", got |-> 0]

fetchDashboardData(r) == calls' = Append(calls, NewCall(r))

\* ------------------------------------------------------------------- Init
NewOrigin == [ f \in PayloadFields |-> 0 ]

Init ==
    /\ variant \in {"pull", "push"}
    /\ inventory = JArray(<<>>)
    /\ purchaseOrders = JArray(<<>>)
    /\ slaViolations = JArray(<<>>)
    /\ restockPlan = JArray(<<>>)
    /\ metrics = JArray(<<>>)
    /\ activityLogs = <<>>
    /\ isRunning = FALSE
    /\ eventSources = <<>>
    \* useEffect(() => { fetchDashboardData() }, []) has run on mount
    /\ calls = IF variant = "pull" THEN <<NewCall(0)>> ELSE <<>>
    /\ runCalls = <<>>
    /\ consoleErrors = 0
    /\ view = Render(JArray(<<>>), JArray(<<>>), JArray(<<>>))
    /\ origin = NewOrigin
    /\ delivered = <<>>
    /\ discarded = FALSE


\* ------------------------------------------------------------- EventSource
\* readyState: CONNECTING, OPEN or CLOSED.  History: endSeen, the "end"
\* event was dispatched on it; handled, the terminal handlers ("end"
\* listener, onerror) that ran for it.
NewEventSource ==
    [readyState |-> "CONNECTING", endSeen |-> FALSE, handled |-> <<>>]

\* A handler that leaves the EventSource to its automatic reconnection
\* instead of closing it.
Close_reconnecting(es) == [es EXCEPT !.readyState = "CONNECTING"]

\* A close() that does nothing.
Close_keepOpen(es) == es

\* eventSource.close()
Close(es) == [es EXCEPT !.readyState = "CLOSED"]

Sources == 1..Len(eventSources)
OpenSources == { r \in Sources : eventSources[r].readyState # "CLOSED" }

\* --------------------------------------------------------------- runSystem
\* A button that is never disabled.
ButtonDisabled_never == FALSE

\* <Button onClick={runSystem} disabled={isRunning}>: React commits the
\* update queued by a click before the browser dispatches the next click.
ButtonDisabled == isRunning

\* A runSystem that keeps the entries of the previous run.
StartLogs_keep == activityLogs

\* setActivityLogs([])
StartLogs == <<>>

runSystemPull ==
    /\ isRunning' = TRUE
    /\ activityLogs' = StartLogs
    /\ eventSources' = Append(eventSources, NewEventSource)
    /\ delivered' = <<>>
    /\ discarded' = (activityLogs # <<>>)
    /\ UNCHANGED <<variant, store, calls, runCalls, consoleErrors, view, origin>>

\* the push version also issues GET /run before it returns
runSystemPush ==
    /\ isRunning' = TRUE
    /\ activityLogs' = StartLogs
    /\ eventSources' = Append(eventSources, NewEventSource)
    /\ runCalls' = Append(runCalls, [phase |-> "fetch"])
    /\ delivered' = <<>>
    /\ discarded' = (activityLogs # <<>>)
    /\ UNCHANGED <<variant, store, calls, consoleErrors, view, origin>>

runSystem == IF variant = "pull" THEN runSystemPull ELSE runSystemPush

\* The run status the component keeps and shows: the isRunning flag, which
\* the button renders as "Running..." or "Run Supply Chain System".  There
\* is no third value.
Status == IF isRunning THEN "Running" ELSE IF eventSources = <<>> THEN "Idle" ELSE "Settled"

\* A click on the button; a disabled button dispatches no click event.
Click ==
    /\ Len(eventSources) < MaxRuns
    /\ IF ButtonDisabled THEN UNCHANGED vars ELSE runSystem

\* --------------------------------------------------------- stream handlers
\* eventSource.onopen: console.log only
OnOpen(r) ==
    /\ eventSources[r].readyState = "CONNECTING"
    /\ eventSources' = [eventSources EXCEPT ![r].readyState = "OPEN"]
    /\ UNCHANGED <<variant, store, activityLogs, isRunning, calls, runCalls,
                   consoleErrors, view, origin, delivered, discarded>>

\* new Date().toLocaleTimeString(): the wall-clock string of the receipt; no
\* handler reads it back, and all entries of a model run fall in one second
LocaleTime == "hh:mm:ss"

\* An updater that keeps only the newest entry.
AppendLog_latestOnly(prev, data) ==
    <<[message |-> Trim(data), timestamp |-> LocaleTime]>>

\* An updater that puts the new entry first.
AppendLog_prepend(prev, data) ==
    <<[message |-> Trim(data), timestamp |-> LocaleTime]>> \o prev

\* setActivityLogs((prev) => [...prev, {message: event.data.trim(), timestamp: ...}])
AppendLog(prev, data) ==
    Append(prev, [message |-> Trim(data), timestamp |-> LocaleTime])

\* eventSource.onmessage
OnMessage(r, data) ==
    /\ eventSources[r].readyState = "OPEN"
    /\ Len(delivered) < MaxMsgs
    /\ activityLogs' = AppendLog(activityLogs, data)
    /\ delivered' = Append(delivered, data)
    /\ UNCHANGED discarded
    /\ UNCHANGED <<variant, store, isRunning, eventSources, calls, runCalls,
                   consoleErrors, view, origin>>

\* An "end" listener that also resets the read models to their initial
\* empty arrays.
EndListener_resetStore(r) ==
    /\ eventSources' =
         [eventSources EXCEPT ![r] = [Close(@) EXCEPT !.endSeen = TRUE,
                                                      !.handled = Append(@, "end")]]
    /\ isRunning' = FALSE
    /\ fetchDashboardData(r)
    /\ inventory' = JArray(<<>>)
    /\ purchaseOrders' = JArray(<<>>)
    /\ slaViolations' = JArray(<<>>)
    /\ UNCHANGED <<variant, restockPlan, metrics, activityLogs, runCalls, consoleErrors,
                   view, origin, delivered, discarded>>

\* the pull version's eventSource.addEventListener("end", ...)
EndListener(r) ==
    /\ eventSources' =
         [eventSources EXCEPT ![r] = [Close(@) EXCEPT !.endSeen = TRUE,
                                                      !.handled = Append(@, "end")]]
    /\ isRunning' = FALSE
    /\ fetchDashboardData(r)
    /\ UNCHANGED <<variant, store, activityLogs, runCalls, consoleErrors, view, origin, delivered, discarded>>

\* The stream dispatches the named event "end" (pull version).
OnEnd(r) ==
    /\ variant = "pull"
    /\ eventSources[r].readyState = "OPEN"
    /\ ~eventSources[r].endSeen
    /\ EndListener(r)

\* The push version registers no "end" listener: the event is dispatched to
\* nobody, the connection stays open and isRunning stays true.
EndUnhandled(r) ==
    /\ variant = "push"
    /\ eventSources[r].readyState = "OPEN"
    /\ ~eventSources[r].endSeen
    /\ eventSources' = [eventSources EXCEPT ![r].endSeen = TRUE]
    /\ UNCHANGED <<variant, store, activityLogs, isRunning, calls, runCalls,
                   consoleErrors, view, origin, delivered, discarded>>

\* eventSource.onerror of the pull version
ErrorHandlerPull(r) ==
    /\ consoleErrors' = consoleErrors + 1
    /\ eventSources' =
         [eventSources EXCEPT ![r] = [Close(@) EXCEPT !.handled = Append(@, "error")]]
    /\ isRunning' = FALSE
    /\ fetchDashboardData(r)
    /\ UNCHANGED <<variant, store, activityLogs, runCalls, view, origin, delivered, discarded>>

\* eventSource.onerror of the push version
ErrorHandlerPush(r) ==
    /\ eventSources' =
         [eventSources EXCEPT ![r] = [Close(@) EXCEPT !.handled = Append(@, "error")]]
    /\ isRunning' = FALSE
    /\ UNCHANGED <<variant, store, activityLogs, calls, runCalls, consoleErrors,
                   view, origin, delivered, discarded>>

\* The transport fails or the server closes the stream: an error event is
\* dispatched on a connection that close() has not been called on.
OnError(r) ==
    /\ eventSources[r].readyState # "CLOSED"
    /\ IF variant = "pull" THEN ErrorHandlerPull(r) ELSE ErrorHandlerPush(r)

\* --------------------------------------- fetchDashboardData continuations
Calls == 1..Len(calls)

\* The slot of the store a resource is written to.
SlotOf(k) ==
    CASE k = "inventory" -> "inventory_data"
      [] k = "purchase-orders" -> "purchase_orders"
      [] k = "sla-violations" -> "sla_violations"

\* Setters that leave out the SLA violations.
SetReadModels_noSla(c, inv, po, sla) ==
    /\ inventory' = OrEmpty(inv)
    /\ purchaseOrders' = OrEmpty(po)
    /\ origin' = [origin EXCEPT !["inventory_data"] = c, !["purchase_orders"] = c]
    /\ view' = Render(inventory', purchaseOrders', slaViolations)
    /\ UNCHANGED <<slaViolations, restockPlan, metrics>>

\* Setters behind a run-sequence guard: a response older than the snapshot
\* on display is dropped.
SetReadModels_guarded(c, inv, po, sla) ==
    IF origin["inventory_data"] > c
    THEN UNCHANGED <<store, origin, view>>
    ELSE /\ inventory' = OrEmpty(inv)
         /\ purchaseOrders' = OrEmpty(po)
         /\ slaViolations' = OrEmpty(sla)
         /\ origin' = [origin EXCEPT !["inventory_data"] = c, !["purchase_orders"] = c,
                                     !["sla_violations"] = c]
         /\ view' = Render(inventory', purchaseOrders', slaViolations')
         /\ UNCHANGED <<restockPlan, metrics>>

\* setInventory(inventoryData || []); setPurchaseOrders(purchaseOrderData || []);
\* setSlaViolations(slaData || []), committed in one render
SetReadModels(c, inv, po, sla) ==
    /\ inventory' = OrEmpty(inv)
    /\ purchaseOrders' = OrEmpty(po)
    /\ slaViolations' = OrEmpty(sla)
    /\ origin' = [origin EXCEPT !["inventory_data"] = c, !["purchase_orders"] = c,
                                !["sla_violations"] = c]
    /\ view' = Render(inventory', purchaseOrders', slaViolations')
    /\ UNCHANGED <<restockPlan, metrics>>

\* A handler in the style of Promise.allSettled: the resources other than
\* the failed one k are applied, each to its own slot.
Catch_perResource(c, k) ==
    /\ consoleErrors' = consoleErrors + 1
    /\ \E inv \in InventoryBodies, po \in PurchaseOrderBodies, sla \in SlaBodies :
         /\ inventory' = IF k = "inventory" THEN inventory ELSE OrEmpty(inv)
         /\ purchaseOrders' = IF k = "purchase-orders" THEN purchaseOrders ELSE OrEmpty(po)
         /\ slaViolations' = IF k = "sla-violations" THEN slaViolations ELSE OrEmpty(sla)
    /\ origin' = [ f \in PayloadFields |->
                     IF f \in { SlotOf(j) : j \in Resources \ {k} } THEN c ELSE origin[f] ]
    /\ view' = Render(inventory', purchaseOrders', slaViolations')
    /\ UNCHANGED <<restockPlan, metrics>>

\* catch (error) { console.error("Failed to load dashboard data:", error) }
\* entered when the promise of resource k rejects
Catch(c, k) ==
    /\ consoleErrors' = consoleErrors + 1
    /\ UNCHANGED <<store, view, origin>>

\* A fetchDashboardData that applies each response to its own slot when it
\* arrives, without waiting for the other two.
FetchResolve_applyEach(c) ==
    /\ calls[c].phase = "fetch"
    /\ calls' = IF calls[c].got + 1 = Cardinality(Resources)
                THEN [calls EXCEPT ![c].phase = "json", ![c].got = 0]
                ELSE [calls EXCEPT ![c].got = @ + 1]
    /\ \E k \in Resources, inv \in InventoryBodies, po \in PurchaseOrderBodies,
          sla \in SlaBodies :
         /\ inventory' = IF k = "inventory" THEN OrEmpty(inv) ELSE inventory
         /\ purchaseOrders' = IF k = "purchase-orders" THEN OrEmpty(po) ELSE purchaseOrders
         /\ slaViolations' = IF k = "sla-violations" THEN OrEmpty(sla) ELSE slaViolations
         /\ origin' = [origin EXCEPT ![SlotOf(k)] = c]
    /\ view' = Render(inventory', purchaseOrders', slaViolations')
    /\ UNCHANGED <<variant, restockPlan, metrics, activityLogs, isRunning, eventSources,
                   runCalls, consoleErrors, delivered, discarded>>

\* One of the pending fetches of execution c resolves; when it is the last
\* of the three, Promise.all resolves and the three json() calls are made
FetchResolve(c) ==
    /\ calls[c].phase = "fetch"
    /\ calls' = IF calls[c].got + 1 = Cardinality(Resources)
                THEN [calls EXCEPT ![c].phase = "json", ![c].got = 0]
                ELSE [calls EXCEPT ![c].got = @ + 1]
    /\ UNCHANGED <<variant, store, activityLogs, isRunning, eventSources, runCalls,
                   consoleErrors, view, origin, delivered, discarded>>

\* fetch(k) of execution c rejects (network failure): Promise.all rejects
FetchReject(c, k) ==
    /\ calls[c].phase = "fetch"
    /\ calls' = [calls EXCEPT ![c].phase = "failed"]
    /\ Catch(c, k)
    /\ UNCHANGED <<variant, activityLogs, isRunning, eventSources, runCalls,
                   delivered, discarded>>

\* The three json() promises all resolve: the second Promise.all resolves
\* with the three bodies and the setters run.  (How many of the three have
\* resolved so far is not observable by any handler, so the model takes the
\* settling of the second Promise.all as one step.)
JsonResolve(c) ==
    /\ calls[c].phase = "json"
    /\ calls' = [calls EXCEPT ![c].phase = "done"]
    /\ \E inv \in InventoryBodies, po \in PurchaseOrderBodies, sla \in SlaBodies :
           SetReadModels(c, inv, po, sla)
    /\ UNCHANGED <<variant, activityLogs, isRunning, eventSources, runCalls,
                   consoleErrors, delivered, discarded>>

\* json() of resource k rejects (the body is not JSON, e.g. a 500 page)
JsonReject(c, k) ==
    /\ calls[c].phase = "json"
    /\ calls' = [calls EXCEPT ![c].phase = "failed"]
    /\ Catch(c, k)
    /\ UNCHANGED <<variant, activityLogs, isRunning, eventSources, runCalls,
                   delivered, discarded>>

\* ------------------------------------------- GET /run of the push version
RunCalls == 1..Len(runCalls)

\* setInventory(data.inventory_data) ... setMetrics(data.metrics)
ReplaceAll(r, data) ==
    /\ inventory' = data.inventory_data
    /\ purchaseOrders' = data.purchase_orders
    /\ restockPlan' = data.restock_plan
    /\ slaViolations' = data.sla_violations
    /\ metrics' = data.metrics
    /\ origin' = [ f \in PayloadFields |-> r ]

\* await fetch(".../run") resolves
RunFetchResolve(r) ==
    /\ runCalls[r].phase = "fetch"
    /\ runCalls' = [runCalls EXCEPT ![r].phase = "json"]
    /\ UNCHANGED <<variant, store, activityLogs, isRunning, eventSources, calls,
                   consoleErrors, view, origin, delivered, discarded>>

\* await fetch(".../run") rejects: runSystem's promise rejects, unhandled
RunFetchReject(r) ==
    /\ runCalls[r].phase = "fetch"
    /\ runCalls' = [runCalls EXCEPT ![r].phase = "failed"]
    /\ UNCHANGED <<variant, store, activityLogs, isRunning, eventSources, calls,
                   consoleErrors, view, origin, delivered, discarded>>

\* await res.json() resolves with data; data.inventory_data throws a
\* TypeError when data is null
RunJsonResolve(r, data) ==
    /\ runCalls[r].phase = "json"
    /\ IF data.isNull
       THEN /\ runCalls' = [runCalls EXCEPT ![r].phase = "failed"]
            /\ UNCHANGED <<store, origin>>
       ELSE /\ runCalls' = [runCalls EXCEPT ![r].phase = "done"]
            /\ ReplaceAll(r, data)
    /\ UNCHANGED <<variant, activityLogs, isRunning, eventSources, calls,
                   consoleErrors, view, delivered, discarded>>

\* await res.json() rejects
RunJsonReject(r) ==
    /\ runCalls[r].phase = "json"
    /\ runCalls' = [runCalls EXCEPT ![r].phase = "failed"]
    /\ UNCHANGED <<variant, store, activityLogs, isRunning, eventSources, calls,
                   consoleErrors, view, origin, delivered, discarded>>

\* ------------------------------------------------------------------- Next
Next ==
    \/ Click
    \/ \E r \in Sources : OnOpen(r)
    \/ \E r \in Sources, data \in Payloads : OnMessage(r, data)
    \/ \E r \in Sources : OnEnd(r)
    \/ \E r \in Sources : EndUnhandled(r)
    \/ \E r \in Sources : OnError(r)
    \/ \E c \in Calls : FetchResolve(c)
    \/ \E c \in Calls, k \in Resources : FetchReject(c, k)
    \/ \E c \in Calls : JsonResolve(c)
    \/ \E c \in Calls, k \in Resources : JsonReject(c, k)
    \/ \E r \in RunCalls : RunFetchResolve(r)
    \/ \E r \in RunCalls : RunFetchReject(r)
    \/ \E r \in RunCalls, data \in RunPayloads : RunJsonResolve(r, data)
    \/ \E r \in RunCalls : RunJsonReject(r)

Spec == Init /\ [][Next]_vars

\* ---------------------------------------------------------------- fairness
\* A pending HTTP request settles: its promise resolves or rejects, and the
\* continuation after the await runs.
Settles(c) ==
    /\ c \in Calls
    /\ \/ FetchResolve(c)
       \/ \E k \in Resources : FetchReject(c, k)
       \/ JsonResolve(c)
       \/ \E k \in Resources : JsonReject(c, k)

RunSettles(r) ==
    /\ r \in RunCalls
    /\ \/ RunFetchResolve(r)
       \/ RunFetchReject(r)
       \/ \E data \in RunPayloads : RunJsonResolve(r, data)
       \/ RunJsonReject(r)

\* The program with the one progress the runtime gives it: no promise of
\* fetch() or json() stays pending forever.  What the stream sends, and
\* when, and whether the user clicks, is up to the server and the user.
FairSpec ==
    /\ Spec
    /\ \A c \in 1..(MaxRuns + 1) : WF_vars(Settles(c))
    /\ \A r \in 1..MaxRuns : WF_vars(RunSettles(r))

\* ----------------------------------------------------------------- claims
Entry(data) == [message |-> Trim(data), timestamp |-> LocaleTime]

\* C1: at most one stream connection is open in every reachable state, and
\* a click while isRunning is a no-op: it opens no connection, does not
\* clear the LogBuffer and does not change isRunning.
C1_MutualExclusion ==
    /\ [](Cardinality(OpenSources) <= 1)
    /\ [][(isRunning /\ Click) => UNCHANGED <<eventSources, activityLogs, isRunning>>]_vars

\* A second run is streaming, with entries in the buffer, and it is the
\* only open connection.
C1_Witness ==
    /\ isRunning
    /\ Len(eventSources) = 2
    /\ OpenSources = {2}
    /\ activityLogs # <<>>

\* C2: the LogBuffer holds only entries of messages received after the most
\* recent start: entry i is the trimmed i-th payload delivered since then.
C2_NoMergeAcrossRuns ==
    \A i \in 1..Len(activityLogs) :
        /\ i <= Len(delivered)
        /\ activityLogs[i].message = Trim(delivered[i])

\* start(); receive("a"); start(); receive("b c"): the second start found
\* entries of the first run, and the buffer now holds the one entry "b c".
C2_Witness ==
    /\ Len(eventSources) = 2
    /\ discarded
    /\ delivered = << <<"b", " ", "c", " ">> >>
    /\ activityLogs = << Entry(<<"b", " ", "c", " ">>) >>

\* C3: N default messages delivered during one run append N entries, one
\* per message, each the trimmed payload, in arrival order.
C3_NoDropNoReorder ==
    /\ Len(activityLogs) = Len(delivered)
    /\ activityLogs = [ i \in 1..Len(delivered) |-> Entry(delivered[i]) ]

\* Two different messages arrived on an open connection that saw no end
\* event and no error.
C3_Witness ==
    /\ Len(delivered) = MaxMsgs
    /\ delivered[1] # delivered[2]
    /\ \E r \in OpenSources : eventSources[r].handled = <<>> /\ ~eventSources[r].endSeen
    /\ activityLogs[1].message = <<"b", " ", "c">>
    /\ activityLogs[2].message = <<"a">>

\* Reconciliations invoked for run r: executions of fetchDashboardData that
\* a terminal handler of r started (pull), applications of the combined
\* payload of r's GET /run (push).
Reconciliations(r) ==
    IF variant = "pull"
    THEN Cardinality({ c \in Calls : calls[c].run = r })
    ELSE IF r \in RunCalls /\ runCalls[r].phase = "done" THEN 1 ELSE 0

Current(r) == r = Len(eventSources)

\* C4: once the end event was received on a run's connection, the
\* connection is closed, the run is no longer Running (Settled),
\* reconciliation was invoked exactly once for that run, and exactly one
\* terminal handler ran for the connection.
C4_EndSettlesRun ==
    \A r \in Sources :
        eventSources[r].endSeen =>
            /\ eventSources[r].readyState = "CLOSED"
            /\ Current(r) => Status = "Settled"
            /\ Reconciliations(r) = 1
            /\ Len(eventSources[r].handled) = 1

\* The statement of C4 for the pull version alone (it holds there).
C4_EndSettlesRunPull == variant = "pull" => C4_EndSettlesRun

\* C5: once onerror ran for a run's connection, the connection is closed,
\* the status is Error, a terminated status that is not the one of a clean
\* completion, and reconciliation was invoked exactly once for that run.
C5_ErrorSettlesRun ==
    \A r \in Sources :
        eventSources[r].handled = <<"error">> =>
            /\ eventSources[r].readyState = "CLOSED"
            /\ Current(r) => Status = "Error"
            /\ Reconciliations(r) = 1

\* What does hold of onerror in the pull version: closed, not running,
\* one fetchDashboardData for the run.
C5_ErrorSettlesRunPull ==
    \A r \in Sources :
        (variant = "pull" /\ eventSources[r].handled = <<"error">>) =>
            /\ eventSources[r].readyState = "CLOSED"
            /\ Current(r) => ~isRunning
            /\ Reconciliations(r) = 1

\* An execution of fetchDashboardData enters its catch block in this step.
Fails(c) == calls[c].phase \in {"fetch", "json"} /\ calls'[c].phase = "failed"

C7_NeverPartiallyApplied ==
    /\ origin["inventory_data"] = origin["purchase_orders"]
    /\ origin["purchase_orders"] = origin["sla_violations"]
    /\ \A c \in Calls : calls[c].phase = "failed" => origin["inventory_data"] # c
    /\ \A r \in RunCalls : runCalls[r].phase = "failed" => origin["inventory_data"] # r

\* The reconciliation of the second run replaced the three read models
\* together, after an earlier execution had failed.
C7_Witness ==
    /\ variant = "pull"
    /\ \E c \in Calls : calls[c].phase = "failed"
    /\ \E c \in Calls :
         /\ calls[c].run = 2
         /\ calls[c].phase = "done"
         /\ \A k \in Resources : origin[SlotOf(k)] = c

\* C8: a combined payload with an expected field missing is rejected as a
\* whole: every slot of the store keeps its value.
C8_ReplaceAllOrNothing ==
    [][ \A r \in RunCalls, data \in RunPayloads :
          (MissingFields(data) # {} /\ RunJsonResolve(r, data)) => UNCHANGED store ]_vars

\* C9: the numbers the metric cards show are those of the current
\* snapshot: low stock counts the items with stock_level strictly below
\* reorder_threshold, the two totals are the lengths of the collections.
C9_DerivedNeverDrift ==
    variant = "pull" =>
        /\ view.lowStockCount =
             Cardinality({ i \in 1..Len(inventory.items) :
                             inventory.items[i].stock_level
                               < inventory.items[i].reorder_threshold })
        /\ view.totalPurchaseOrders = Len(purchaseOrders.items)
        /\ view.slaViolationsCount = Len(slaViolations.items)

\* The inventory [{stock 5, threshold 10}, {stock 20, threshold 5}] is
\* shown with low-stock count 1.
C9_Witness ==
    /\ variant = "pull"
    /\ Len(inventory.items) = 2
    /\ inventory.items[1].stock_level = 5 /\ inventory.items[1].reorder_threshold = 10
    /\ inventory.items[2].stock_level = 20 /\ inventory.items[2].reorder_threshold = 5
    /\ view.lowStockCount = 1
    /\ view.totalPurchaseOrders = 1
    /\ view.slaViolationsCount = 2

\* C10: while a run is Running, no reconciliation request of that run has
\* been issued and no reconciliation result of that run has been applied.
C10_ReconcileAfterTermination ==
    \A r \in Sources :
        (isRunning /\ Current(r)) =>
            /\ ~\E c \in Calls : calls[c].run = r
            /\ r \notin RunCalls
            /\ variant = "push" => origin["inventory_data"] # r

\* The statement of C10 for the pull version alone (it holds there).
C10_ReconcileAfterTerminationPull == variant = "pull" => C10_ReconcileAfterTermination

\* The step is a start: runSystem created a connection.
Starts == Len(eventSources') = Len(eventSources) + 1

\* C11: the executions of fetchDashboardData in flight when a run starts
\* are not cancelled by the start, and the response of an execution is
\* applied whenever it completes, whichever execution wrote the store last
\* (there is no sequence guard); so the response of an earlier run's
\* reconciliation can be applied after a later run's.
C11_NoCancelNoGuard ==
    [][ /\ Starts => \A c \in Calls : calls'[c] = calls[c]
        /\ \A c \in Calls :
              (calls[c].phase = "json" /\ calls'[c].phase = "done") =>
                  \A k \in Resources : origin'[SlotOf(k)] = c ]_vars

\* The reconciliation of run 1 was applied after the reconciliation of run
\* 2 had been applied: the store shows the older response.
C11_Witness ==
    \E c, d \in Calls :
        /\ calls[c].run = 1
        /\ calls[d].run = 2
        /\ calls[c].phase = "done"
        /\ calls[d].phase = "done"
        /\ \A k \in Resources : origin[SlotOf(k)] = c

Signalled(r) == eventSources[r].endSeen \/ eventSources[r].handled # <<>>

\* C13: once a terminal signal was delivered on the connection of the
\* current run, the run eventually is not Running: isRunning is false and
\* the connection is closed.
C13_TerminalSignalEndsRun ==
    \A r \in 1..MaxRuns :
        (r \in Sources /\ Current(r) /\ Signalled(r))
            ~> (r \in Sources /\ ~isRunning /\ eventSources[r].readyState = "CLOSED")

\* The statement of C13 for the pull version alone (it holds there).
C13_TerminalSignalEndsRunPull ==
    \A r \in 1..MaxRuns :
        (variant = "pull" /\ r \in Sources /\ Current(r) /\ Signalled(r))
            ~> (r \in Sources /\ ~isRunning /\ eventSources[r].readyState = "CLOSED")

IsPrefix(s, t) == Len(s) <= Len(t) /\ SubSeq(t, 1, Len(s)) = s

\* C15: in every step that is not a start, the LogBuffer before the step is
\* a prefix of the LogBuffer after it; a step that empties a non-empty
\* buffer is a start.
C15_AppendOnly ==
    [][ /\ ~Starts => IsPrefix(activityLogs, activityLogs')
        /\ (activityLogs # <<>> /\ activityLogs' = <<>>) => Starts ]_vars

\* The buffer of the second run holds two entries, appended one after the
\* other, after the start had emptied the buffer of the first run.
C15_Witness ==
    /\ Len(eventSources) = 2
    /\ discarded
    /\ Len(activityLogs) = 2
    /\ activityLogs[1].message = <<"a">>
    /\ activityLogs[2].message = <<"b", " ", "c">>

\* C16: isRunning is true exactly when a connection that runSystem created
\* has not been closed (it is connecting or open); when isRunning is false
\* every connection is closed.
C16_RunningIffConnection ==
    /\ isRunning <=> OpenSources # {}
    /\ ~isRunning => \A r \in Sources : eventSources[r].readyState = "CLOSED"

\* Two runs are over, one ended by the end event and one by an error: the
\* flag is false and both connections are closed.
C16_Witness ==
    /\ ~isRunning
    /\ Len(eventSources) = 2
    /\ eventSources[1].handled = <<"end">>
    /\ eventSources[2].handled = <<"error">>
    /\ OpenSources = {}

\* A terminal handler (the "end" listener or onerror) has run for the
\* connection of the latest run.
Finished ==
    /\ eventSources # <<>>
    /\ eventSources[Len(eventSources)].handled # <<>>

\* C17: once a terminal handler has run for the latest run and closed its
\* connection, every step that is not a start leaves the LogBuffer as it
\* is, the steps that apply or fail a reconciliation included.
C17_FinishedLogFrozen ==
    [][ (Finished /\ ~Starts) => activityLogs' = activityLogs ]_vars

\* A run that logged two entries has ended, its reconciliation has been
\* applied to the store since, and the buffer still holds the two entries.
C17_Witness ==
    /\ Finished
    /\ ~isRunning
    /\ Len(activityLogs) = 2
    /\ \E c \in Calls :
         /\ calls[c].run = Len(eventSources)
         /\ calls[c].phase = "done"
         /\ origin["inventory_data"] = c

\* The step handles a stream message: an entry is appended.
MessageStep == ~Starts /\ activityLogs' # activityLogs

\* The step applies a reconciliation result or fails to: a pending
\* execution of fetchDashboardData, or a pending GET /run, moves on.
ReconcileStep ==
    \/ \E c \in Calls : calls'[c] # calls[c]
    \/ \E r \in RunCalls : runCalls'[r] # runCalls[r]

\* The step runs a terminal handler.
TerminalStep ==
    \E r \in Sources : eventSources'[r].handled # eventSources[r].handled

\* C18: a step that handles a stream message changes the LogBuffer only
\* (read models, status, connections and pending requests unchanged); a
\* step that applies or fails a reconciliation changes no LogBuffer, status
\* or connection; a start and a terminal handler change no read model.
C18_SeparationOfEffects ==
    [][ /\ MessageStep =>
              UNCHANGED <<store, view, origin, isRunning, eventSources, calls, runCalls>>
        /\ ReconcileStep => UNCHANGED <<activityLogs, isRunning, eventSources>>
        /\ (Starts \/ TerminalStep) => UNCHANGED <<store, view, origin>> ]_vars

\* Push version: a message was logged, onerror ended the run, and the
\* payload of GET /run was applied to the store.
C18_Witness ==
    /\ variant = "push"
    /\ Len(activityLogs) = 1
    /\ eventSources[1].handled = <<"error">>
    /\ ~isRunning
    /\ runCalls[1].phase = "done"
    /\ \A f \in PayloadFields : origin[f] = 1

====
